---- MODULE Spec2Model ----
(***************************************************************************)
(* Fixture generators for the debug tracers of an EVM node:                *)
(*   debug-test-specs/generate-tracer-specs.py  (any tracer, script        *)
(*                                               "tracer")                 *)
(*   debug-test-specs/generate-4byte-specs.py   (4byteTracer only, script  *)
(*                                               "4byte")                  *)
(* A run probes the node (eth_blockNumber), then walks the block catalog   *)
(* once per configuration variant, sends one debug_traceBlockByNumber per  *)
(* (variant, entry) and writes the request/response pair to a file.        *)
(*                                                                         *)
(* Strings are TLA+ strings; str.replace, str.lower, f"{index}" and        *)
(* int(s, 16) are computed character by character.  A path is the tuple of *)
(* the components handed to os.path.join.  The text of a file is the       *)
(* sequence of JSON documents dumped into it (one, after open(.., 'w')).   *)
(*                                                                         *)
(* Not modelled: replies that are no JSON object, trace results that are   *)
(* no JSON array, and file system errors other than the missing directory  *)
(* of generate-4byte-specs.py.  A run is started again only after a run    *)
(* that returned (exit code 0 or 1), with the same arguments.              *)
(***************************************************************************)
EXTENDS Integers, Sequences, FiniteSets, TLC

\* ------------------------------------------------------------------ bounds
\* number of consecutive runs of the script against the same disk and node
MaxRuns == 2

\* ------------------------------------------------------- python built-ins
CharAt(s, i) == SubSeq(s, i, i)

Upper == "ABCDEFGHIJKLMNOPQRSTUVWXYZ"

Lower == "abcdefghijklmnopqrstuvwxyz"

Digits == "0123456789"

HexDigits == "0123456789abcdef"

\* index (1-based) of the one-character string c in alphabet, 0 if absent
IndexIn(alphabet, c) ==
  IF \E k \in 1..Len(alphabet) : CharAt(alphabet, k) = c
  THEN CHOOSE k \in 1..Len(alphabet) : CharAt(alphabet, k) = c
  ELSE 0

LowerChar(c) ==
  IF IndexIn(Upper, c) > 0 THEN CharAt(Lower, IndexIn(Upper, c)) ELSE c

\* str.lower()
RECURSIVE str_lower(_)
str_lower(s) ==
  IF Len(s) = 0 THEN ""
  ELSE LowerChar(CharAt(s, 1)) \o str_lower(SubSeq(s, 2, Len(s)))

\* str.replace(old, new) for a non-empty old: every non-overlapping
\* occurrence, scanning from the left
RECURSIVE str_replace(_, _, _)
str_replace(s, old, new) ==
  IF Len(s) < Len(old) THEN s
  ELSE IF SubSeq(s, 1, Len(old)) = old
       THEN new \o str_replace(SubSeq(s, Len(old) + 1, Len(s)), old, new)
       ELSE CharAt(s, 1) \o str_replace(SubSeq(s, 2, Len(s)), old, new)

\* f"{index}" for a non-negative integer
RECURSIVE str(_)
str(n) ==
  IF n < 10 THEN CharAt(Digits, n + 1)
  ELSE str(n \div 10) \o CharAt(Digits, (n % 10) + 1)

RECURSIVE HexAcc(_, _)
HexAcc(s, acc) ==
  IF Len(s) = 0 THEN acc
  ELSE LET d == IndexIn(HexDigits, LowerChar(CharAt(s, 1))) - 1
       IN  IF d < 0 THEN -1
           ELSE HexAcc(SubSeq(s, 2, Len(s)), acc * 16 + d)

\* int(s, 16); -1 stands for the ValueError of a malformed literal
int16(s) ==
  LET body == IF Len(s) >= 2 /\ SubSeq(s, 1, 2) = "0x"
              THEN SubSeq(s, 3, Len(s)) ELSE s
  IN  IF Len(body) = 0 THEN -1 ELSE HexAcc(body, 0)

\* ---------------------------------------------------------- the catalogs
BLOCKS_4byte ==
  << <<"0x0", "genesis">>,
     <<"0x1", "empty">>,
     <<"0x2", "simple-transfer">>,
     <<"0x3", "self-destruct-contract">>,
     <<"0x4", "set-contract-storage">>,
     <<"0x5", "clear-storage">>,
     <<"0x6", "self-destruct-send-funds">>,
     <<"0x7", "increment-bytes">>,
     <<"0x8", "call-one-level-deep">>,
     <<"0x9", "call-multi-level-deep">>,
     <<"0xa", "callcode-one-level">>,
     <<"0xb", "delegate-call-one-level-deep">>,
     <<"0xc", "sequence-memory">>,
     <<"0xd", "MSTORE">>,
     <<"0xe", "increment-storage">>,
     <<"0xf", "logs">>,
     <<"0x10", "halts">>,
     <<"0x11", "push-swap">>,
     <<"0x12", "memory-read-revert">>,
     <<"0x13", "self-destruct">>,
     <<"0x14", "create-create2">>,
     <<"0x15", "set-and-clean-storage">>,
     <<"0x16", "set-and-clean-storage">>,
     <<"0x17", "static-call-one-level-deep">>,
     <<"0x18", "static-call-multiple-level-deeep">>,
     <<"0x19", "erc20-contract-transfer">>,
     <<"0x1a", "call-one-level-gas-refund">>,
     <<"0x1b", "self-destruct-send-self">>,
     <<"0x1c", "self-destruct-sender">>,
     <<"0x1d", "stack-underflow">>,
     <<"0x1e", "0g0v0_Istanbul">>,
     <<"0x1f", "precompile">>,
     <<"0x20", "contract-creation-fails-level-1">>,
     <<"0x21", "stack-underflow">> >>

BLOCKS_tracer ==
  BLOCKS_4byte \o << <<"0x22", "failed-create-operations">> >>

BLOCKS(s) == IF s = "4byte" THEN BLOCKS_4byte ELSE BLOCKS_tracer

\* ------------------------------------------------------------ the inputs
\* tracer names given on the command line ("" : none given)
TracerNames ==
  {"", "4byteTracer", "callTracer", "prestateTracer", "flatCallTracer",
   "TracerV2"}

\* The node: the height of its chain and its reply to eth_blockNumber.
\* A block above the head is unknown to it.
Nodes ==
  { [head |-> 34, probe |-> [jsonrpc |-> "2.0", id |-> 1, result |-> "0x22"]],
    [head |-> 2,  probe |-> [jsonrpc |-> "2.0", id |-> 1, result |-> "0x2"]],
    [head |-> 34, probe |-> [jsonrpc |-> "2.0", id |-> 1,
                             error |-> [code |-> -32601,
                                        message |-> "method not found"]]],
    [head |-> 34, probe |-> [jsonrpc |-> "2.0", id |-> 1, result |-> "0x"]] }

\* the disk before the first run: no specs/ tree, or the tree of an
\* earlier generation with files in it
Disks == {"none", "stale"}

ErrorReply ==
  [jsonrpc |-> "2.0", id |-> 1,
   error |-> [code |-> -32000, message |-> "block not found"]]

\* number of transactions of a catalog block (genesis and "empty" have none)
TxCount(b) == IF b <= 1 THEN 0 ELSE IF b % 4 = 0 THEN 2 ELSE 1

TxResult(k) ==
  [txHash |-> "0x" \o str(k),
   result |-> [sig \in {"0xa9059cbb-64"} |-> 1]]

\* the node's JSON reply to debug_traceBlockByNumber(params)
TraceReply(n, params) ==
  LET b == int16(params[1])
  IN  IF b < 0 \/ b > n.head THEN ErrorReply
      ELSE [jsonrpc |-> "2.0", id |-> 1,
            result |-> [k \in 1..TxCount(b) |-> TxResult(k)]]

\* ------------------------------------------------- generate-tracer-specs
\* tracer_dir_name = TRACER.replace("Tracer", "").lower() + "-tracer"
TracerDirName(T) == str_lower(str_replace(T, "Tracer", "")) \o "-tracer"

\* variant of needs_config: every tracer is given the two diffMode loops
needs_config_any(T) == T # ""

needs_config(T) == T = "prestateTracer"

\* tracer_config=None
NoConfig == [k \in {} |-> FALSE]

\* variant of Variants: the second loop was copied from the first and its
\* tracer_config left as it was
VariantsSameConfig(s, T) ==
  IF s = "tracer" /\ needs_config(T)
  THEN << [tracer_config |-> [diffMode |-> FALSE],
           subdirectory |-> "diff-mode-false"],
          [tracer_config |-> [diffMode |-> FALSE],
           subdirectory |-> "diff-mode-true"] >>
  ELSE << [tracer_config |-> [k \in {} |-> FALSE], subdirectory |-> ""] >>

\* the (tracer_config, subdirectory) arguments of the loops of main, in
\* the order of the loops; subdirectory "" is subdirectory=None
Variants(s, T) ==
  IF s = "tracer" /\ needs_config(T)
  THEN << [tracer_config |-> [diffMode |-> FALSE],
           subdirectory |-> "diff-mode-false"],
          [tracer_config |-> [diffMode |-> TRUE],
           subdirectory |-> "diff-mode-true"] >>
  ELSE << [tracer_config |-> NoConfig, subdirectory |-> ""] >>

\* truth value of a dict or None: a non-empty dict
Truthy(cfg) == DOMAIN cfg # {}

TracerParams(T, tracer_config) ==
  IF Truthy(tracer_config)
  THEN [tracer |-> T, tracerConfig |-> tracer_config]
  ELSE [tracer |-> T]

\* variant of Request: the recorded request drifts from the posted payload
RequestOtherId(block_hex, tracer_params) ==
  [jsonrpc |-> "2.0",
   method  |-> "debug_traceBlockByNumber",
   params  |-> <<block_hex, tracer_params>>,
   id      |-> 2]

\* the request recorded in the spec
Request(block_hex, tracer_params) ==
  [jsonrpc |-> "2.0",
   method  |-> "debug_traceBlockByNumber",
   params  |-> <<block_hex, tracer_params>>,
   id      |-> 1]

\* the payload rpc_call posts
Payload(method, params) ==
  [jsonrpc |-> "2.0", method |-> method, params |-> params, id |-> 1]

\* variant of BuildSpec: the status follows the reply
BuildSpecStatus(request, response) ==
  [request |-> request, response |-> response,
   statusCode |-> IF "error" \in DOMAIN response THEN 500 ELSE 200]

BuildSpec(request, response) ==
  [request |-> request, response |-> response, statusCode |-> 200]

Filename(dir_name, index, block_hex, description) ==
  str(index) \o "-debug-" \o dir_name \o "-" \o block_hex \o "-"
    \o description \o ".json"

\* variant of Filepath: the subdirectory is dropped
FilepathFlat(dir_name, subdirectory, filename) ==
  <<"specs", dir_name, filename>>

Filepath(dir_name, subdirectory, filename) ==
  IF subdirectory # ""
  THEN <<"specs", dir_name, subdirectory, filename>>
  ELSE <<"specs", dir_name, filename>>

\* os.path.dirname
dirname(path) == SubSeq(path, 1, Len(path) - 1)

\* os.makedirs(d, exist_ok=True): d and every ancestor of it
makedirs(ds, d) == ds \cup { SubSeq(d, 1, k) : k \in 1..Len(d) }

\* variant of WriteFile: the file is opened with 'a'
WriteFileAppend(fs, path, doc) ==
  [p \in (DOMAIN fs) \cup {path} |->
     IF p = path
     THEN (IF path \in DOMAIN fs THEN fs[path] ELSE <<>>) \o <<doc>>
     ELSE fs[p]]

\* with open(filepath, 'w') as f: json.dump(spec, f, indent=2)
WriteFile(fs, path, doc) ==
  [p \in (DOMAIN fs) \cup {path} |-> IF p = path THEN <<doc>> ELSE fs[p]]

\* response.get("result", []), then len() of it.  The trace results of the
\* node are JSON arrays.
ResultCount(response) ==
  LET result == IF "result" \in DOMAIN response
                THEN response.result ELSE <<>>
  IN  Len(result)

\* ------------------------------------------------- generate-4byte-specs
Request4byte(block_hex) ==
  [jsonrpc |-> "2.0",
   method  |-> "debug_traceBlockByNumber",
   params  |-> <<block_hex, [tracer |-> "4byteTracer"]>>,
   id      |-> 1]

Filename4byte(index, block_hex, description) ==
  str(index) \o "-debug-4byte-tracer-" \o block_hex \o "-"
    \o description \o ".json"

Filepath4byte(filename) == <<"specs", "4byte-tracer", filename>>

\* the signatures of the transactions of a reply
Signatures(response) ==
  IF "result" \in DOMAIN response
  THEN UNION { DOMAIN response.result[k].result :
                 k \in 1..Len(response.result) }
  ELSE {}

\* ----------------------------------------------------------------- state
VARIABLES
  script,           \* which of the two scripts runs
  TRACER,           \* the tracer name ("" : none given)
  node,             \* the node behind RPC_URL
  tracer_dir_name,  \* the module-level name of the tracer's directory
  pc,               \* "load", "main", "gen", "done", "exited", "crashed"
  exit_code,        \* -1 while the process runs
  crash,            \* the exception that ended the process, "" if none
  probe,            \* "none", "raise" or "reply": what eth_blockNumber did
  variant,          \* which loop of main runs (1-based)
  index,            \* the loop's enumerate index
  total_results,
  total_files,
  all_signatures,
  reported,         \* the count printed after "Generated:", -1 before
  dirs,             \* the directories on disk
  files,            \* path -> the JSON documents in the file
  calls,            \* the payloads posted in this run, in order
  written,          \* the paths written in this run
  run,              \* the number of this run
  prev_complete,    \* the previous run returned 0
  prev_files        \* the files on disk when this run started

vars == <<script, TRACER, node, tracer_dir_name, pc, exit_code, crash, probe,
          variant, index, total_results, total_files, all_signatures,
          reported, dirs, files, calls, written, run, prev_complete,
          prev_files>>

\* what never changes
config == <<script, TRACER, node>>

\* the per-run counters and logs
counters == <<total_results, total_files, all_signatures, reported>>

NoFiles == [p \in {} |-> <<>>]

\* the directory name the script writes under
DirNameOf(s, T) == IF s = "4byte" THEN "4byte-tracer" ELSE TracerDirName(T)

\* the path of position (v, i) of a run of script s for tracer T
PathOf(s, T, v, i) ==
  LET blk == BLOCKS(s)[i + 1]
      dir_name == TracerDirName(T)
  IN  IF s = "4byte"
      THEN Filepath4byte(Filename4byte(i, blk[1], blk[2]))
      ELSE Filepath(dir_name, Variants(s, T)[v].subdirectory,
                    Filename(dir_name, i, blk[1], blk[2]))

\* the request of position (v, i)
RequestOf(s, T, v, i) ==
  IF s = "4byte" THEN Request4byte(BLOCKS(s)[i + 1][1])
  ELSE Request(BLOCKS(s)[i + 1][1],
               TracerParams(T, Variants(s, T)[v].tracer_config))

\* the tree an earlier generation left: its directories, the first fixture
\* (written when the node did not know the block) and a file of a catalog
\* entry that no longer exists
StaleDirs(s, T) ==
  UNION { makedirs({}, dirname(PathOf(s, T, v, 0))) :
            v \in 1..Len(Variants(s, T)) }

StaleFiles(s, T) ==
  LET first == PathOf(s, T, 1, 0)
      old   == dirname(first) \o <<"99-debug-" \o DirNameOf(s, T)
                                     \o "-0x63-removed.json">>
      doc   == BuildSpec(RequestOf(s, T, 1, 0), ErrorReply)
  IN  [p \in {first, old} |-> <<doc>>]

Init ==
  /\ script \in {"tracer", "4byte"}
  /\ TRACER \in (IF script = "tracer" THEN TracerNames ELSE {"4byteTracer"})
  /\ node \in Nodes
  /\ \E d \in Disks :
       IF d = "stale" /\ TRACER # ""
       THEN dirs = StaleDirs(script, TRACER) /\ files = StaleFiles(script, TRACER)
       ELSE dirs = {} /\ files = NoFiles
  /\ tracer_dir_name = IF script = "4byte" THEN "4byte-tracer" ELSE ""
  /\ pc = IF script = "4byte" THEN "main" ELSE "load"
  /\ exit_code = -1
  /\ crash = ""
  /\ probe = "none"
  /\ variant = 1
  /\ index = 0
  /\ total_results = 0
  /\ total_files = 0
  /\ all_signatures = {}
  /\ reported = -1
  /\ calls = <<>>
  /\ written = {}
  /\ run = 1
  /\ prev_complete = FALSE
  /\ prev_files = files

\* --------------------------------------------------------------- actions
\* lines 30-48: no tracer name on the command line or in the environment
NoTracer ==
  /\ pc = "load"
  /\ TRACER = ""
  /\ pc' = "exited"
  /\ exit_code' = 1
  /\ UNCHANGED <<config, tracer_dir_name, crash, probe, variant, index,
                 counters, dirs, files, calls, written, run, prev_complete,
                 prev_files>>

\* line 51, then exit(main())
ModuleLoad ==
  /\ pc = "load"
  /\ TRACER # ""
  /\ tracer_dir_name' = TracerDirName(TRACER)
  /\ pc' = "main"
  /\ UNCHANGED <<config, exit_code, crash, probe, variant, index, counters,
                 dirs, files, calls, written, run, prev_complete, prev_files>>

\* variant of ProbeRaises: the except branch does not return
ProbeRaisesIgnored(outcome, response) == FALSE

\* the try block of main raises: the post fails (outcome "raise"), or the
\* reply's result is no hexadecimal literal
ProbeRaises(outcome, response) ==
  \/ outcome = "raise"
  \/ int16(IF "result" \in DOMAIN response THEN response.result ELSE "0x0") < 0

\* main: rpc_call("eth_blockNumber", []) inside try, connected
ProbeConnected ==
  /\ pc = "main"
  /\ ~ProbeRaises("reply", node.probe)
  /\ calls' = Append(calls, Payload("eth_blockNumber", <<>>))
  /\ probe' = "reply"
  /\ pc' = "gen"
  /\ total_results' = 0
  /\ total_files' = 0
  /\ all_signatures' = {}
  /\ UNCHANGED <<config, tracer_dir_name, exit_code, crash, variant, index,
                 reported, dirs, files, written, run, prev_complete,
                 prev_files>>

\* main: the except branch, return 1
ProbeFails ==
  /\ pc = "main"
  /\ \E outcome \in {"raise", "reply"} :
       /\ ProbeRaises(outcome, node.probe)
       /\ probe' = outcome
  /\ calls' = Append(calls, Payload("eth_blockNumber", <<>>))
  /\ pc' = "exited"
  /\ exit_code' = 1
  /\ UNCHANGED <<config, tracer_dir_name, crash, variant, index, counters,
                 dirs, files, written, run, prev_complete, prev_files>>

\* the loops of main after one more iteration: the next entry, the next
\* loop, or the summary and return 0
Advance(files_count) ==
  IF index + 1 < Len(BLOCKS(script))
  THEN /\ index' = index + 1
       /\ UNCHANGED <<variant, pc, exit_code, reported>>
  ELSE IF variant < Len(Variants(script, TRACER))
       THEN /\ index' = 0
            /\ variant' = variant + 1
            /\ UNCHANGED <<pc, exit_code, reported>>
       ELSE /\ pc' = "done"
            /\ exit_code' = 0
            /\ reported' = files_count
            /\ UNCHANGED <<variant, index>>

\* variant of Unhandled: the exception is caught and the loop goes on
Retried(exc) == [pc |-> "gen", exit_code |-> -1, crash |-> ""]

\* nothing in main or generate_spec catches what rpc_call or open raises
Unhandled(exc) == [pc |-> "crashed", exit_code |-> 1, crash |-> exc]

\* one iteration of a loop of main of generate-tracer-specs.py:
\* generate_spec(block_hex, description, index, tracer_config, subdirectory)
GenerateSpec ==
  /\ pc = "gen"
  /\ script = "tracer"
  /\ LET v             == Variants(script, TRACER)[variant]
         block_hex     == BLOCKS(script)[index + 1][1]
         description   == BLOCKS(script)[index + 1][2]
         tracer_params == TracerParams(TRACER, v.tracer_config)
         request       == Request(block_hex, tracer_params)
         payload       == Payload("debug_traceBlockByNumber",
                                  <<block_hex, tracer_params>>)
         response      == TraceReply(node, payload.params)
         spec          == BuildSpec(request, response)
         filename      == Filename(tracer_dir_name, index, block_hex,
                                   description)
         filepath      == Filepath(tracer_dir_name, v.subdirectory, filename)
     IN  /\ calls' = Append(calls, payload)
         /\ dirs' = makedirs(dirs, dirname(filepath))
         /\ files' = WriteFile(files, filepath, spec)
         /\ written' = written \cup {filepath}
         /\ total_results' = total_results + ResultCount(response)
         /\ total_files' = total_files + 1
         /\ Advance(total_files + 1)
  /\ UNCHANGED <<config, tracer_dir_name, crash, probe, all_signatures, run,
                 prev_complete, prev_files>>

\* one iteration of the loop of main of generate-4byte-specs.py, the
\* directory specs/4byte-tracer being there
Generate4byteSpec ==
  /\ pc = "gen"
  /\ script = "4byte"
  /\ LET block_hex   == BLOCKS(script)[index + 1][1]
         description == BLOCKS(script)[index + 1][2]
         request     == Request4byte(block_hex)
         payload     == Payload("debug_traceBlockByNumber",
                                <<block_hex, [tracer |-> "4byteTracer"]>>)
         response    == TraceReply(node, payload.params)
         spec        == BuildSpec(request, response)
         filename    == Filename4byte(index, block_hex, description)
         filepath    == Filepath4byte(filename)
     IN  /\ dirname(filepath) \in dirs
         /\ calls' = Append(calls, payload)
         /\ files' = WriteFile(files, filepath, spec)
         /\ written' = written \cup {filepath}
         /\ total_results' = total_results + ResultCount(response)
         /\ all_signatures' = all_signatures \cup Signatures(response)
         /\ Advance(Len(BLOCKS(script)))
  /\ UNCHANGED <<config, tracer_dir_name, crash, probe, total_files, dirs,
                 run, prev_complete, prev_files>>

\* generate_4byte_spec when specs/4byte-tracer is missing: the reply is
\* there, open(filepath, 'w') raises FileNotFoundError
Generate4byteSpecNoDir ==
  /\ pc = "gen"
  /\ script = "4byte"
  /\ LET block_hex == BLOCKS(script)[index + 1][1]
         payload   == Payload("debug_traceBlockByNumber",
                              <<block_hex, [tracer |-> "4byteTracer"]>>)
         filepath  == Filepath4byte(Filename4byte(index, block_hex,
                                      BLOCKS(script)[index + 1][2]))
         end       == Unhandled("FileNotFoundError")
     IN  /\ dirname(filepath) \notin dirs
         /\ calls' = Append(calls, payload)
         /\ pc' = end.pc
         /\ exit_code' = end.exit_code
         /\ crash' = end.crash
  /\ UNCHANGED <<config, tracer_dir_name, probe, variant, index, counters,
                 dirs, files, written, run, prev_complete, prev_files>>

\* requests.post or response.json() raises inside rpc_call during a loop
\* of main (either script)
TraceTransportFailure ==
  /\ pc = "gen"
  /\ LET payload == Payload("debug_traceBlockByNumber",
                            RequestOf(script, TRACER, variant, index).params)
         end     == Unhandled("transport")
     IN  /\ calls' = Append(calls, payload)
         /\ pc' = end.pc
         /\ exit_code' = end.exit_code
         /\ crash' = end.crash
  /\ UNCHANGED <<config, tracer_dir_name, probe, variant, index, counters,
                 dirs, files, written, run, prev_complete, prev_files>>

\* the script is started again, with the same arguments, after a run that
\* returned (0 or 1)
Rerun ==
  /\ pc \in {"done", "exited"}
  /\ run < MaxRuns
  /\ run' = run + 1
  /\ prev_complete' = (pc = "done")
  /\ prev_files' = files
  /\ tracer_dir_name' = IF script = "4byte" THEN "4byte-tracer" ELSE ""
  /\ pc' = IF script = "4byte" THEN "main" ELSE "load"
  /\ exit_code' = -1
  /\ crash' = ""
  /\ probe' = "none"
  /\ variant' = 1
  /\ index' = 0
  /\ total_results' = 0
  /\ total_files' = 0
  /\ all_signatures' = {}
  /\ reported' = -1
  /\ calls' = <<>>
  /\ written' = {}
  /\ UNCHANGED <<config, dirs, files>>

Next ==
  \/ NoTracer
  \/ ModuleLoad
  \/ ProbeConnected
  \/ ProbeFails
  \/ GenerateSpec
  \/ Generate4byteSpec
  \/ Generate4byteSpecNoDir
  \/ TraceTransportFailure
  \/ Rerun

Spec == Init /\ [][Next]_vars

\* ------------------------------------------------------------ properties
NBlocks == Len(BLOCKS(script))

NVariants == Len(Variants(script, TRACER))

\* the rank of position (v, i) in the (variant, entry) sequence, from 0
Ord(v, i) == (v - 1) * NBlocks + i

\* how many positions of this run have been completed
Processed ==
  IF pc = "done" THEN NVariants * NBlocks
  ELSE IF pc \in {"gen", "crashed"} THEN Ord(variant, index)
  ELSE 0

Positions == { <<v, i>> : v \in 1..NVariants, i \in 0..(NBlocks - 1) }

Done == { q \in Positions : Ord(q[1], q[2]) < Processed }

IsTrace(payload) == payload.method = "debug_traceBlockByNumber"

TraceCalls == { k \in 1..Len(calls) : IsTrace(calls[k]) }

TwoVariants == script = "tracer" /\ TRACER = "prestateTracer"

\* C1: within one run no two distinct (catalog entry, variant) pairs are
\* written to the same path: the run has written as many distinct paths as
\* it has completed positions, and the positions of a whole run all have
\* different paths.
C1_PathsUnique ==
  /\ Cardinality(written) = Processed
  /\ (pc = "done") =>
       Cardinality({ PathOf(script, TRACER, q[1], q[2]) : q \in Positions })
         = Cardinality(Positions)

\* the two entries labelled "set-and-clean-storage" (0x15, 0x16) and the two
\* labelled "stack-underflow" (0x1d, 0x21) are written, under two variants
C1_Witness ==
  /\ pc = "done"
  /\ TwoVariants
  /\ BLOCKS(script)[22][2] = BLOCKS(script)[23][2]
  /\ BLOCKS(script)[30][2] = BLOCKS(script)[34][2]
  /\ { PathOf(script, TRACER, v, i) : v \in {1, 2}, i \in {21, 22, 29, 33} }
       \subseteq written

\* C2: a complete run that follows a complete run (same catalog, tracer and
\* node) leaves the set of files and the content of every file as they were.
C2_Idempotent ==
  (pc = "done" /\ prev_complete) => files = prev_files

C2_Witness ==
  /\ pc = "done"
  /\ prev_complete
  /\ run = 2
  /\ Cardinality(written) = NVariants * NBlocks
  /\ written \subseteq DOMAIN prev_files

\* C3: a complete prestateTracer run writes 2 x |catalog| files, |catalog|
\* of them in diff-mode-false and |catalog| in diff-mode-true, and the
\* request in each file carries the tracerConfig of its subdirectory.
C3_TwoVariantTrees ==
  (pc = "done" /\ TwoVariants) =>
    /\ Cardinality(written) = 2 * NBlocks
    /\ total_files = 2 * NBlocks
    /\ \A p \in written : Len(p) = 4 /\ p[1] = "specs"
    /\ Cardinality({ p \in written : p[3] = "diff-mode-false" }) = NBlocks
    /\ Cardinality({ p \in written : p[3] = "diff-mode-true" }) = NBlocks
    /\ \A p \in written :
         LET opts == files[p][1].request.params[2]
         IN  /\ "tracerConfig" \in DOMAIN opts
             /\ opts.tracerConfig = [diffMode |-> (p[3] = "diff-mode-true")]

C3_Witness ==
  /\ pc = "done"
  /\ TwoVariants
  /\ \E p \in written : p[3] = "diff-mode-true"
  /\ \E p \in written : p[3] = "diff-mode-false"

\* C4: a complete run for a tracer without variants writes |catalog| files,
\* all directly in specs/<the tracer's directory>/, and reports |catalog|
\* files.
C4_SingleTree ==
  (pc = "done" /\ ~TwoVariants) =>
    /\ Cardinality(written) = NBlocks
    /\ reported = NBlocks
    /\ \A p \in written :
         Len(p) = 3 /\ p[1] = "specs" /\ p[2] = tracer_dir_name

C4_Witness ==
  /\ pc = "done"
  /\ script = "tracer"
  /\ TRACER = "callTracer"
  /\ reported = 35

\* the probe raised: the post failed, or the reply's result is no number
ProbeDidNotSucceed ==
  \/ probe = "raise"
  \/ /\ probe = "reply"
     /\ "result" \in DOMAIN node.probe
     /\ int16(node.probe.result) < 0

\* C5: when the probe does not succeed the run sends no trace request,
\* writes no file and exits with 1; and nothing is traced or written
\* before the probe has succeeded.
C5_ProbeGate ==
  /\ (probe = "none" \/ ProbeDidNotSucceed) =>
       /\ TraceCalls = {}
       /\ written = {}
       /\ files = prev_files
  /\ ProbeDidNotSucceed => (pc = "exited" /\ exit_code = 1)

C5_Witness ==
  /\ probe = "raise"
  /\ pc = "exited"
  /\ exit_code = 1
  /\ Len(calls) = 1

\* C6: a JSON-RPC error reply is written verbatim with statusCode 200, adds
\* nothing to the result count and does not end the run: the step that
\* receives it moves on to the next position, and every position the run
\* has passed has its file, whatever the node replied.
C6_ErrorReplyRecorded ==
  /\ [](\A q \in Done :
          LET p     == PathOf(script, TRACER, q[1], q[2])
              reply == TraceReply(node, RequestOf(script, TRACER,
                                                  q[1], q[2]).params)
          IN  /\ p \in written
              /\ Len(files[p]) = 1
              /\ files[p][1].statusCode = 200
              /\ files[p][1].response = reply)
  /\ [][ (/\ pc = "gen"
          /\ written' # written
          /\ TraceReply(node, RequestOf(script, TRACER, variant,
                                        index).params) = ErrorReply)
         => /\ total_results' = total_results
            /\ crash' = ""
            /\ pc' \in {"gen", "done"}
            /\ Processed' = Processed + 1 ]_vars

\* the node knows blocks 0..2 only; the run is past several unknown blocks
C6_Witness ==
  /\ node.head = 2
  /\ pc = "gen"
  /\ variant = 2
  /\ index = 5
  /\ files[PathOf(script, TRACER, 1, 3)][1].response = ErrorReply
  /\ files[PathOf(script, TRACER, 2, 4)][1].statusCode = 200
  /\ total_results = 2

\* the directory name the claim describes: a trailing "Tracer" removed and
\* nothing else, lower-cased, "-tracer" appended
ClaimSlug(T) ==
  LET n == Len(T)
  IN  str_lower(IF n >= 6 /\ SubSeq(T, n - 5, n) = "Tracer"
                THEN SubSeq(T, 1, n - 6) ELSE T) \o "-tracer"

ClaimPath(T, label, i, blk) ==
  LET name == str(i) \o "-debug-" \o ClaimSlug(T) \o "-" \o blk[1] \o "-"
                \o blk[2] \o ".json"
  IN  IF label = "" THEN <<"specs", ClaimSlug(T), name>>
      ELSE <<"specs", ClaimSlug(T), label, name>>

\* C7: every position the run has completed was written to
\* specs/<slug>/[label/]<index>-debug-<slug>-<blockId>-<blockLabel>.json,
\* the slug being the tracer name without a trailing "Tracer", lower-cased,
\* followed by "-tracer".
C7_PathFormat ==
  \A q \in Done :
    ClaimPath(TRACER, Variants(script, TRACER)[q[1]].subdirectory, q[2],
              BLOCKS(script)[q[2] + 1]) \in written

\* C8: a transport failure at position k ends the process there: nothing
\* is written for k, exactly the positions before k have their fixtures,
\* the failing step changes nothing on disk, no step follows it, and no
\* payload of the run was posted twice.
C8_TransportAbort ==
  /\ [](Cardinality({ calls[k] : k \in 1..Len(calls) }) = Len(calls))
  /\ [](crash = "transport" =>
          /\ pc = "crashed"
          /\ exit_code = 1
          /\ PathOf(script, TRACER, variant, index) \notin written
          /\ written = { PathOf(script, TRACER, q[1], q[2]) : q \in Done }
          /\ Cardinality(TraceCalls) = Processed + 1
          /\ \A q \in Done :
               files[PathOf(script, TRACER, q[1], q[2])]
                 = << BuildSpec(RequestOf(script, TRACER, q[1], q[2]),
                                TraceReply(node, RequestOf(script, TRACER,
                                             q[1], q[2]).params)) >>)
  /\ [][ (crash' = "transport" /\ crash # "transport")
           => (files' = files /\ dirs' = dirs /\ written' = written) ]_vars
  /\ [][ crash # "transport" ]_vars

C8_Witness ==
  /\ crash = "transport"
  /\ TwoVariants
  /\ variant = 2
  /\ index = 7
  /\ Cardinality(written) = 42

\* C9: no write fails for want of its directory, and every file written
\* lies in a directory that exists (both scripts, also with no specs/ tree
\* before the run).
C9_DirectoryEnsured ==
  /\ crash # "FileNotFoundError"
  /\ \A p \in written : dirname(p) \in dirs

\* C10: for every completed position the request in its file is the
\* payload that was posted for it, the debug_traceBlockByNumber envelope
\* with id 1, and its options have a tracerConfig exactly for the
\* prestateTracer variants.
C10_RequestAsSent ==
  \A q \in Done :
    LET doc  == files[PathOf(script, TRACER, q[1], q[2])][1]
        sent == calls[Ord(q[1], q[2]) + 2]
    IN  /\ doc.request = sent
        /\ sent.jsonrpc = "2.0"
        /\ sent.method = "debug_traceBlockByNumber"
        /\ sent.id = 1
        /\ Len(sent.params) = 2
        /\ sent.params[1] = BLOCKS(script)[q[2] + 1][1]
        /\ sent.params[2].tracer = TRACER
        /\ ("tracerConfig" \in DOMAIN sent.params[2]) <=> TwoVariants

C10_Witness ==
  /\ pc = "done"
  /\ TwoVariants
  /\ "tracerConfig" \in DOMAIN calls[3].params[2]
  /\ files[PathOf(script, TRACER, 2, 34)][1].request = calls[71]

====
